---- MODULE Spec2Model ----
(***************************************************************************)
(* Model of the two units of the voicedeck front end:                      *)
(*   - fetchHypercerts (src/utils/supabase/hypercerts.ts): a two-stage     *)
(*     GraphQL retrieval with a Promise.all fan-out and a try/catch        *)
(*     that turns every outcome into a { data } | { error } envelope;      *)
(*   - HypercertMintSchema and HypercertForm                               *)
(*     (src/components/submit/hypercert-form.tsx): the zod schema, the     *)
(*     badge effect and the submit handler of the submission form.         *)
(*                                                                         *)
(* JavaScript values are encoded as follows.  An optional value            *)
(* (undefined / null) is None == <<>> and a present value v is            *)
(* Some(v) == <<v>>.  Text that the code splits or trims is a sequence of  *)
(* one-character strings; text that is only passed through (URLs,          *)
(* messages) is a TLA+ string.  A Date is a day number since the epoch.    *)
(***************************************************************************)
EXTENDS Integers, Sequences, FiniteSets, TLC

VARIABLES
    \* ---- fetchHypercerts ----
    pc,             \* position of the async function
    hbReq,          \* the hyperboard request: not sent, in flight, settled
    hypercertIds,   \* the local hypercertIds (None until extracted)
    requests,       \* the per-identifier requests, in the order issued
    all,            \* the promise returned by Promise.all
    outcome,        \* what the caller of fetchHypercerts gets
    outOfOrder,     \* history: a response overtook an earlier request
    \* ---- HypercertForm ----
    values,         \* the form values held by useForm
    badges,         \* useState badges
    effectPending,  \* the [tags] effect is scheduled and has not run yet
    lastEvent       \* what the last handler did (validation result, metadata)

fetchVars == <<pc, hbReq, hypercertIds, requests, all, outcome, outOfOrder>>
formVars  == <<values, badges, effectPending, lastEvent>>
vars      == <<pc, hbReq, hypercertIds, requests, all, outcome, outOfOrder,
               values, badges, effectPending, lastEvent>>

\* ------------------------------------------------------------------------
\* Optional values
\* ------------------------------------------------------------------------
None == <<>>

Some(v) == <<v>>

IsSome(o) == Len(o) = 1

Val(o) == o[1]

\* JavaScript `xs?.[0]` on an optional array: the first element, or undefined.
OptFirst(o) ==
    IF IsSome(o) /\ Len(Val(o)) > 0 THEN Some(Val(o)[1]) ELSE None

\* ------------------------------------------------------------------------
\* Bounds
\* ------------------------------------------------------------------------
MaxEntries == 3

HypercertIdSet == {"h1", "h2"}

IdLists == UNION {[1..n -> HypercertIdSet] : n \in 0..MaxEntries}

\* ------------------------------------------------------------------------
\* Errors and remote responses
\* ------------------------------------------------------------------------
NotFoundError ==
    [name |-> "Error", message |-> "No hypercert IDs found (status code: 404)",
     req |-> 0]

\* `undefined.map(...)`: entries is missing on a section that exists
EntriesTypeError ==
    [name |-> "TypeError",
     message |-> "Cannot read properties of undefined (reading 'map')",
     req |-> 0]

\* rejection of the hyperboard request
HyperboardRejection ==
    [name |-> "ClientError", message |-> "hyperboard request failed", req |-> 0]

\* rejection of the i-th per-identifier request
RequestRejection(i) ==
    [name |-> "ClientError", message |-> "hypercert request failed", req |-> i]

Section(entries) == [entries |-> entries]

Hyperboard(sections) == [sections |-> sections]

\* The shapes the hyperboard response can take along
\* res.hyperboards?.data?.[0]?.sections?.data?.[0]?.entries
HyperboardResponses ==
    {[hyperboards |-> None],
     [hyperboards |-> Some([data |-> None])],
     [hyperboards |-> Some([data |-> Some(<<>>)])],
     [hyperboards |-> Some([data |-> Some(<<Hyperboard(None)>>)])],
     [hyperboards |-> Some([data |-> Some(<<Hyperboard(Some([data |-> None]))>>)])],
     [hyperboards |-> Some([data |-> Some(<<Hyperboard(Some([data |-> Some(<<>>)]))>>)])],
     [hyperboards |->
        Some([data |-> Some(<<Hyperboard(Some([data |-> Some(<<Section(None)>>)]))>>)])]}
    \cup
    {[hyperboards |->
        Some([data |-> Some(<<Hyperboard(Some([data |->
            Some(<<Section(Some([i \in 1..Len(ids) |-> [id |-> ids[i]]]))>>)]))>>)])]
     : ids \in IdLists}

Record(id) == [hypercert_id |-> id]

OtherId(id) == IF id = "h1" THEN "h2" ELSE "h1"

\* The shapes a per-identifier response can take along hypercert?.hypercerts?.data?.[0]
HypercertResponses(id) ==
    {[hypercerts |-> None],
     [hypercerts |-> Some([data |-> None])],
     [hypercerts |-> Some([data |-> Some(<<>>)])],
     [hypercerts |-> Some([data |-> Some(<<Record(id)>>)])],
     [hypercerts |-> Some([data |-> Some(<<Record(id), Record(OtherId(id))>>)])]}

\* ------------------------------------------------------------------------
\* fetchHypercerts: the pure steps
\* ------------------------------------------------------------------------
\* lines 15-18: the optional chain down to the first section, then
\* `.entries.map(entry => entry.id)`; the chain yields undefined as soon as
\* one link is missing, and `.entries.map` throws when the section exists but
\* has no entries property.
ExtractIds(res) ==
    LET board == OptFirst(IF IsSome(res.hyperboards)
                          THEN Val(res.hyperboards).data ELSE None)
        sect  == OptFirst(IF IsSome(board) /\ IsSome(Val(board).sections)
                          THEN Val(Val(board).sections).data ELSE None)
    IN  IF ~IsSome(sect) THEN [kind |-> "undefined"]
        ELSE IF ~IsSome(Val(sect).entries) THEN [kind |-> "throw"]
        ELSE LET es == Val(Val(sect).entries)
             IN  [kind |-> "ids", ids |-> [i \in 1..Len(es) |-> es[i].id]]

\* line 19: `!hypercertIds` -- true for undefined only; an array, even an
\* empty one, is truthy.
NoIds(extracted) == extracted.kind = "undefined"

\* mutant: the fan-out stops after the first identifier
IssueRequestsFirstOnly(ids) ==
    [i \in 1..(IF Len(ids) > 0 THEN 1 ELSE 0) |->
        [id |-> ids[i], status |-> "inflight", response |-> None]]

\* lines 25-29: one request per identifier, in identifier order
IssueRequests(ids) ==
    [i \in 1..Len(ids) |-> [id |-> ids[i], status |-> "inflight", response |-> None]]

\* line 30: Promise.all over n promises; with none it is fulfilled at once
NewAll(n) ==
    [status |-> IF n = 0 THEN "fulfilled" ELSE "pending",
     values |-> [i \in 1..n |-> None],
     remaining |-> n,
     reason |-> None]

\* mutant: values are collected in arrival order, not by index
AllOnFulfilArrival(p, i, v) ==
    IF p.status # "pending" THEN p
    ELSE LET slot == Len(p.values) - p.remaining + 1
         IN  [p EXCEPT !.values[slot] = Some(v),
                       !.remaining = p.remaining - 1,
                       !.status = IF p.remaining = 1 THEN "fulfilled" ELSE "pending"]

\* Promise.all, the i-th promise fulfils with v: the value goes to slot i
AllOnFulfil(p, i, v) ==
    IF p.status # "pending" THEN p
    ELSE [p EXCEPT !.values[i] = Some(v),
                   !.remaining = p.remaining - 1,
                   !.status = IF p.remaining = 1 THEN "fulfilled" ELSE "pending"]

\* mutant: a rejected request counts as an empty response (allSettled style)
AllOnRejectSwallow(p, e) == AllOnFulfil(p, e.req, [hypercerts |-> None])

\* Promise.all, the i-th promise rejects: the first rejection settles it
AllOnReject(p, e) ==
    IF p.status # "pending" THEN p
    ELSE [p EXCEPT !.status = "rejected", !.reason = Some(e)]

\* line 33: hypercert?.hypercerts?.data?.[0] || null
FirstRecord(resp) ==
    OptFirst(IF IsSome(resp.hypercerts) THEN Val(resp.hypercerts).data ELSE None)

\* lines 32-34
MapFirstRecords(resps) == [i \in 1..Len(resps) |-> FirstRecord(resps[i])]

\* line 37: filter(hypercert => hypercert != null); the elements stay
\* optional values, so a null left in the list would be a None element
NonNull(opts) == SelectSeq(opts, IsSome)

\* lines 36-38
SuccessEnvelope(resps) ==
    [kind |-> "return", data |-> Some(NonNull(MapFirstRecords(resps))), error |-> None]

\* mutant: the catch rethrows instead of returning
Rethrow(e) == [kind |-> "throw", data |-> None, error |-> Some(e)]

\* lines 39-43
FailureEnvelope(e) == [kind |-> "return", data |-> None, error |-> Some(e)]

\* ------------------------------------------------------------------------
\* fetchHypercerts: the steps
\* ------------------------------------------------------------------------
FetchInit ==
    /\ pc = "start"
    /\ hbReq = [status |-> "none", response |-> None]
    /\ hypercertIds = None
    /\ requests = <<>>
    /\ all = NewAll(0)
    /\ outcome = None
    /\ outOfOrder = FALSE

\* lines 9-13: the call sends the hyperboard request and suspends on it
Call ==
    /\ pc = "start"
    /\ hbReq' = [status |-> "inflight", response |-> None]
    /\ pc' = "awaitHyperboard"
    /\ UNCHANGED <<hypercertIds, requests, all, outcome, outOfOrder>>
    /\ UNCHANGED formVars

\* the endpoint answers the hyperboard query
HyperboardFulfil(res) ==
    /\ hbReq.status = "inflight"
    /\ hbReq' = [status |-> "fulfilled", response |-> Some(res)]
    /\ UNCHANGED <<pc, hypercertIds, requests, all, outcome, outOfOrder>>
    /\ UNCHANGED formVars

\* the hyperboard query fails
HyperboardReject ==
    /\ hbReq.status = "inflight"
    /\ hbReq' = [status |-> "rejected", response |-> None]
    /\ UNCHANGED <<pc, hypercertIds, requests, all, outcome, outOfOrder>>
    /\ UNCHANGED formVars

\* line 11 throws into the catch of lines 39-43
ResumeHyperboardRejected ==
    /\ pc = "awaitHyperboard"
    /\ hbReq.status = "rejected"
    /\ outcome' = Some(FailureEnvelope(HyperboardRejection))
    /\ pc' = "done"
    /\ UNCHANGED <<hbReq, hypercertIds, requests, all, outOfOrder>>
    /\ UNCHANGED formVars

\* lines 15-30: the function resumes with the hyperboard response, extracts
\* the identifiers, throws or issues every request, and suspends on Promise.all
ResumeHyperboardFulfilled ==
    /\ pc = "awaitHyperboard"
    /\ hbReq.status = "fulfilled"
    /\ LET extracted == ExtractIds(Val(hbReq.response))
       IN  IF extracted.kind = "throw"
           THEN /\ outcome' = Some(FailureEnvelope(EntriesTypeError))
                /\ pc' = "done"
                /\ UNCHANGED <<hypercertIds, requests, all>>
           ELSE IF NoIds(extracted)
           THEN /\ outcome' = Some(FailureEnvelope(NotFoundError))
                /\ pc' = "done"
                /\ UNCHANGED <<hypercertIds, requests, all>>
           ELSE /\ hypercertIds' = Some(extracted.ids)
                /\ requests' = IssueRequests(extracted.ids)
                /\ all' = NewAll(Len(IssueRequests(extracted.ids)))
                /\ pc' = "awaitAll"
                /\ UNCHANGED outcome
    /\ UNCHANGED <<hbReq, outOfOrder>>
    /\ UNCHANGED formVars

Overtakes(i) == \E j \in 1..(i - 1) : requests[j].status = "inflight"

\* the endpoint answers the i-th per-identifier query
RequestFulfil(i, resp) ==
    /\ i \in 1..Len(requests)
    /\ requests[i].status = "inflight"
    /\ requests' = [requests EXCEPT ![i].status = "fulfilled",
                                    ![i].response = Some(resp)]
    /\ all' = AllOnFulfil(all, i, resp)
    /\ outOfOrder' = (outOfOrder \/ Overtakes(i))
    /\ UNCHANGED <<pc, hbReq, hypercertIds, outcome>>
    /\ UNCHANGED formVars

\* the i-th per-identifier query fails
RequestReject(i) ==
    /\ i \in 1..Len(requests)
    /\ requests[i].status = "inflight"
    /\ requests' = [requests EXCEPT ![i].status = "rejected"]
    /\ all' = AllOnReject(all, RequestRejection(i))
    /\ outOfOrder' = (outOfOrder \/ Overtakes(i))
    /\ UNCHANGED <<pc, hbReq, hypercertIds, outcome>>
    /\ UNCHANGED formVars

\* lines 30-38: Promise.all fulfilled, the function maps, filters and returns
ResumeAllFulfilled ==
    /\ pc = "awaitAll"
    /\ all.status = "fulfilled"
    /\ outcome' = Some(SuccessEnvelope([i \in 1..Len(all.values) |-> Val(all.values[i])]))
    /\ pc' = "done"
    /\ UNCHANGED <<hbReq, hypercertIds, requests, all, outOfOrder>>
    /\ UNCHANGED formVars

\* lines 30, 39-43: Promise.all rejected, the catch returns the rejection
ResumeAllRejected ==
    /\ pc = "awaitAll"
    /\ all.status = "rejected"
    /\ outcome' = Some(FailureEnvelope(Val(all.reason)))
    /\ pc' = "done"
    /\ UNCHANGED <<hbReq, hypercertIds, requests, all, outOfOrder>>
    /\ UNCHANGED formVars

\* ------------------------------------------------------------------------
\* Text: split and trim as JavaScript does them
\* ------------------------------------------------------------------------
IsSpace(c) == c = " "

RECURSIVE TrimStart(_)
TrimStart(s) == IF s # <<>> /\ IsSpace(Head(s)) THEN TrimStart(Tail(s)) ELSE s

RECURSIVE TrimEnd(_)
TrimEnd(s) ==
    IF s # <<>> /\ IsSpace(s[Len(s)]) THEN TrimEnd(SubSeq(s, 1, Len(s) - 1)) ELSE s

\* String.prototype.trim
Trim(s) == TrimEnd(TrimStart(s))

RECURSIVE SplitFrom(_, _, _, _)
SplitFrom(s, sep, i, cur) ==
    IF i > Len(s) THEN <<cur>>
    ELSE IF i + Len(sep) - 1 <= Len(s) /\ SubSeq(s, i, i + Len(sep) - 1) = sep
    THEN <<cur>> \o SplitFrom(s, sep, i + Len(sep), <<>>)
    ELSE SplitFrom(s, sep, i + 1, Append(cur, s[i]))

\* String.prototype.split with a non-empty separator string
Split(s, sep) == SplitFrom(s, sep, 1, <<>>)

\* xs.map(x => x.trim())
TrimAll(xs) == [i \in 1..Len(xs) |-> Trim(xs[i])]

\* a text of n characters
Rep(n) == [i \in 1..n |-> "a"]

Comma == <<",">>

CommaSpace == <<",", " ">>

\* ------------------------------------------------------------------------
\* HypercertMintSchema (lines 45-102)
\* ------------------------------------------------------------------------
TitleMin == 1

TitleMax == 50

DescriptionMin == 10

DescriptionMax == 500

\* new Date("2024-06-02") and new Date("2024-06-30") as day numbers
DefaultStart == 19876

DefaultEnd == 19904

\* the number of hexadecimal digits of an address, scaled down from 40
HexLen == 1

HexDigits ==
    {"0", "1", "2", "3", "4", "5", "6", "7", "8", "9",
     "a", "b", "c", "d", "e", "f", "A", "B", "C", "D", "E", "F"}

\* isValidEthereumAddress of @/lib/utils: 0x followed by HexLen hex digits
IsValidEthereumAddress(a) ==
    /\ Len(a) = 2 + HexLen
    /\ a[1] = "0" /\ a[2] = "x"
    /\ \A i \in 3..Len(a) : a[i] \in HexDigits

\* z.string().url(): what the URL parser accepts
WellFormedUrls ==
    {"https://hypercerts.org", "https://i.imgur.com/hypercert-logo.png",
     "https://i.imgur.com/hypercert-banner.png", "https://i.imgur.com/card.png"}

IsUrl(u) == u \in WellFormedUrls

Issue(path, message) == [path |-> path, message |-> message]

\* the issue of a check that failed, nothing for a check that passed
When(failed, issue) == IF failed THEN {issue} ELSE {}

\* a zod issue raised inside the field at fieldPath: the path a refinement
\* gives in its options is appended to the path of the value being refined
IssuePath(fieldPath, refinePath) == fieldPath \o refinePath

\* lines 46-49
TitleIssues(v) ==
    When(Len(v) < TitleMin, Issue(<<"title">>, "Hypercert Name is required"))
    \cup
    When(Len(v) > TitleMax,
         Issue(<<"title">>, "Hypercert Name must be less than 50 characters"))

\* lines 50-55
DescriptionIssues(v) ==
    When(Len(v) < DescriptionMin,
         Issue(<<"description">>,
               "Description is required and must be at least 10 characters"))
    \cup
    When(Len(v) > DescriptionMax,
         Issue(<<"description">>, "Description must be less than 500 characters"))

\* lines 56-61: z.string().url(message) on an optional text
UrlIssues(field, o, message) ==
    IF ~IsSome(o) THEN {Issue(<<field>>, "Required")}
    ELSE IF ~IsUrl(Val(o)) THEN {Issue(<<field>>, message)}
    ELSE {}

\* line 64: val.split(",").every(tag => tag.trim() !== "")
TagsAccepted(v) ==
    LET segs == Split(v, Comma) IN \A i \in 1..Len(segs) : Trim(segs[i]) # <<>>

\* lines 62-67
TagsIssues(v) ==
    IF TagsAccepted(v) THEN {}
    ELSE {Issue(<<"tags">>,
            "Tags must must not be empty, Multiple tags must be separated by commas")}

\* line 78: data.from <= data.to
DatesOrdered(d) == Val(d.from) <= Val(d.to)

\* lines 68-81: the object is checked first; the refinement runs only when
\* both dates are dates, and its issue goes to IssuePath(field, path option)
ProjectDatesIssues(o) ==
    IF ~IsSome(o) THEN {Issue(<<"projectDates">>, "Please select a date range")}
    ELSE LET d == Val(o)
             shape == When(~IsSome(d.from), Issue(<<"projectDates", "from">>, "Required"))
                      \cup
                      When(~IsSome(d.to), Issue(<<"projectDates", "to">>, "Required"))
         IN  IF shape # {} THEN shape
             ELSE IF DatesOrdered(d) THEN {}
             ELSE {Issue(IssuePath(<<"projectDates">>, <<"projectDates">>),
                         "From date must be before to date")}

\* lines 82-83: z.date().default(d)
DateOrDefault(o, d) == IF IsSome(o) THEN Val(o) ELSE d

\* lines 87-93
ContributorsAccepted(value) ==
    LET addresses == TrimAll(Split(value, CommaSpace))
    IN  \A i \in 1..Len(addresses) : IsValidEthereumAddress(addresses[i])

\* mutant: the transform forgets to trim
ContributorsTransformNoTrim(value) == Split(value, Comma)

\* line 99
ContributorsTransform(value) == TrimAll(Split(value, Comma))

\* lines 84-99
ContributorsIssues(o) ==
    IF ~IsSome(o) THEN {Issue(<<"contributors">>, "Required")}
    ELSE IF ContributorsAccepted(Val(o)) THEN {}
    ELSE {Issue(<<"contributors">>,
            "Each value must be a valid Ethereum address separated by a comma and a space.")}

\* lines 100-101: z.boolean()
BooleanIssues(field, b) ==
    IF b \in BOOLEAN THEN {} ELSE {Issue(<<field>>, "Expected boolean")}

\* every field is checked and all issues are collected
SchemaIssues(v) ==
    TitleIssues(v.title) \cup DescriptionIssues(v.description)
    \cup UrlIssues("link", Some(v.link), "Link must be a valid URL")
    \cup UrlIssues("cardImage", v.cardImage, "Card image not generated")
    \cup UrlIssues("logo", Some(v.logo), "Logo Image must be a valid URL")
    \cup UrlIssues("banner", Some(v.banner), "Background Banner Image must be a valid URL")
    \cup TagsIssues(v.tags)
    \cup ProjectDatesIssues(v.projectDates)
    \cup ContributorsIssues(v.contributors)
    \cup BooleanIssues("acceptTerms", v.acceptTerms)
    \cup BooleanIssues("confirmContributorsPermission", v.confirmContributorsPermission)

\* the values the schema hands on when there is no issue
SchemaOutput(v) ==
    [title |-> v.title, description |-> v.description, link |-> v.link,
     cardImage |-> Val(v.cardImage), logo |-> v.logo, banner |-> v.banner,
     tags |-> v.tags,
     projectDates |-> [from |-> Val(Val(v.projectDates).from),
                       to |-> Val(Val(v.projectDates).to)],
     workStartDate |-> DateOrDefault(v.workStartDate, DefaultStart),
     workEndDate |-> DateOrDefault(v.workEndDate, DefaultEnd),
     contributors |-> ContributorsTransform(Val(v.contributors)),
     acceptTerms |-> v.acceptTerms,
     confirmContributorsPermission |-> v.confirmContributorsPermission]

\* HypercertMintSchema.safeParse
SafeParse(v) ==
    LET issues == SchemaIssues(v)
    IN  [success |-> issues = {},
         issues |-> issues,
         data |-> IF issues = {} THEN Some(SchemaOutput(v)) ELSE None]

\* ------------------------------------------------------------------------
\* HypercertForm (lines 106-176)
\* ------------------------------------------------------------------------
\* "Edge Esmeralda", "Edge City"
DefaultBadges ==
    <<<<"E", "d", "g", "e", " ", "E", "s", "m", "e", "r", "a", "l", "d", "a">>,
      <<"E", "d", "g", "e", " ", "C", "i", "t", "y">>>>

\* lines 109-124: cardImage and contributors have no default
DefaultValues ==
    [title |-> <<>>, banner |-> "", description |-> <<>>, logo |-> "", link |-> "",
     tags |-> <<>>,
     projectDates |-> Some([from |-> Some(DefaultStart), to |-> Some(DefaultEnd)]),
     workStartDate |-> Some(DefaultStart), workEndDate |-> Some(DefaultEnd),
     acceptTerms |-> FALSE, confirmContributorsPermission |-> FALSE,
     cardImage |-> None, contributors |-> None]

NonEmpty(t) == t # <<>>

\* mutant: the effect keeps the empty segments
BadgesForKeepEmpty(tags) ==
    IF tags # <<>> THEN DefaultBadges \o TrimAll(Split(tags, Comma)) ELSE DefaultBadges

\* lines 133-141: the body of the [tags] effect
BadgesFor(tags) ==
    IF tags # <<>>
    THEN DefaultBadges \o SelectSeq(TrimAll(Split(tags, Comma)), NonEmpty)
    ELSE DefaultBadges

\* lines 162-165: date.getTime() / 1000 of a day-numbered date
GetTimeSeconds(d) == d * 86400

\* line 158: the work scope is the badge list of the current render
WorkScope == badges

\* lines 144-167: the argument handed to formatHypercertData
OnSubmit(data, scope) ==
    [name |-> data.title, description |-> data.description,
     image |-> data.cardImage, external_url |-> data.link,
     version |-> "2.0", properties |-> <<>>,
     impactScope |-> <<"all">>, excludedImpactScope |-> <<>>,
     workScope |-> scope, excludedWorkScope |-> <<>>,
     rights |-> <<"Public Display">>, excludedRights |-> <<>>,
     workTimeframeStart |-> GetTimeSeconds(data.projectDates.from),
     workTimeframeEnd |-> GetTimeSeconds(data.projectDates.to),
     impactTimeframeStart |-> GetTimeSeconds(data.projectDates.from),
     impactTimeframeEnd |-> GetTimeSeconds(data.projectDates.to),
     contributors |-> data.contributors]

\* the form after its first render: the effect of the mount is still to run
FormInit ==
    /\ values = Some(DefaultValues)
    /\ badges = DefaultBadges
    /\ effectPending = TRUE
    /\ lastEvent = None

\* field.onChange of any field but tags.  An event handler runs only after
\* the effects of the last render have run, hence ~effectPending.
Edit(field, v) ==
    /\ IsSome(values)
    /\ ~effectPending
    /\ values' = Some([Val(values) EXCEPT ![field] = v])
    /\ lastEvent' = Some([type |-> "edit"])
    /\ UNCHANGED <<badges, effectPending>>
    /\ UNCHANGED fetchVars

\* field.onChange of tags: form.watch("tags") changes and schedules the effect
EditTags(v) ==
    /\ IsSome(values)
    /\ ~effectPending
    /\ values' = Some([Val(values) EXCEPT !.tags = v])
    /\ effectPending' = (v # Val(values).tags)
    /\ lastEvent' = Some([type |-> "edit"])
    /\ UNCHANGED badges
    /\ UNCHANGED fetchVars

\* lines 132-142
RunBadgesEffect ==
    /\ IsSome(values)
    /\ effectPending
    /\ badges' = BadgesFor(Val(values).tags)
    /\ effectPending' = FALSE
    /\ UNCHANGED <<values, lastEvent>>
    /\ UNCHANGED fetchVars

\* lines 174, 510-512: the button is always operable; handleSubmit validates
\* through the resolver and calls onSubmit only when there is no issue
Submit ==
    /\ IsSome(values)
    /\ ~effectPending
    /\ LET r == SafeParse(Val(values))
       IN  lastEvent' = Some([type |-> "submit",
                              result |-> r,
                              invoked |-> r.success,
                              metadata |-> IF r.success
                                           THEN Some(OnSubmit(Val(r.data), WorkScope))
                                           ELSE None])
    /\ UNCHANGED <<values, badges, effectPending>>
    /\ UNCHANGED fetchVars

\* HypercertMintSchema.safeParse applied to a draft (the resolver of line 108)
Validate ==
    /\ IsSome(values)
    /\ lastEvent = None
    /\ lastEvent' = Some([type |-> "parse", result |-> SafeParse(Val(values))])
    /\ UNCHANGED <<values, badges, effectPending>>
    /\ UNCHANGED fetchVars

\* ------------------------------------------------------------------------
\* Inputs
\* ------------------------------------------------------------------------
MaxTagsLen == 4

MaxContributorsLen == 8

TagAlphabet == {"a", ",", " "}

ContributorAlphabet == {"0", "x", ",", " "}

ContributorTexts == UNION {[1..n -> ContributorAlphabet] : n \in 0..MaxContributorsLen}

\* a well-formed address
Address == <<"0", "x">> \o [i \in 1..HexLen |-> "0"]

TitleChoices == {Rep(0), Rep(TitleMin), Rep(TitleMax + 1)}

DescriptionChoices == {Rep(DescriptionMin - 1), Rep(DescriptionMin)}

UrlChoices == {"", "https://hypercerts.org"}

TagChoices == {<<>>, <<"a", ",", " ", "b">>, <<"a", ",", ",">>}

Days == {DefaultStart, DefaultEnd}

\* what the range calendar hands to field.onChange: nothing, a start alone,
\* or a range it has put in order
CalendarRanges ==
    {None,
     Some([from |-> Some(DefaultStart), to |-> None]),
     Some([from |-> Some(DefaultStart), to |-> Some(DefaultEnd)])}

\* every date range a draft can hold
DraftRanges ==
    {None}
    \cup {Some([from |-> Some(DefaultStart), to |-> None])}
    \cup {Some([from |-> Some(a), to |-> Some(b)]) : a \in Days, b \in Days}

DateChoices == {None, Some(DefaultStart)}

ContributorChoices ==
    {<<>>, Address, Address \o CommaSpace \o Address, Address \o Comma \o Address}

\* a draft every field of which passes the schema
ValidDraft ==
    [title |-> Rep(TitleMin), banner |-> "https://i.imgur.com/hypercert-banner.png",
     description |-> Rep(DescriptionMin), logo |-> "https://i.imgur.com/hypercert-logo.png",
     link |-> "https://hypercerts.org", tags |-> <<"a">>,
     projectDates |-> Some([from |-> Some(DefaultStart), to |-> Some(DefaultEnd)]),
     workStartDate |-> Some(DefaultStart), workEndDate |-> Some(DefaultEnd),
     acceptTerms |-> TRUE, confirmContributorsPermission |-> TRUE,
     cardImage |-> Some("https://i.imgur.com/card.png"),
     contributors |-> Some(Address)]

Drafts ==
    {[ValidDraft EXCEPT !.title = t, !.description = d, !.link = l, !.cardImage = c,
                        !.logo = g, !.tags = tg, !.projectDates = pd,
                        !.contributors = cs, !.acceptTerms = a,
                        !.confirmContributorsPermission = k]
     : t \in TitleChoices, d \in DescriptionChoices, l \in UrlChoices,
       c \in {None, Some("https://i.imgur.com/card.png")}, g \in UrlChoices,
       tg \in {<<"a">>, <<"a", ",", ",">>}, pd \in DraftRanges,
       cs \in {None} \cup {Some(x) : x \in ContributorChoices},
       a \in BOOLEAN, k \in BOOLEAN}

FormIdle ==
    /\ values = None
    /\ badges = <<>>
    /\ effectPending = FALSE
    /\ lastEvent = None

Init == FetchInit /\ FormIdle

Next ==
    \/ Call
    \/ \E res \in HyperboardResponses : HyperboardFulfil(res)
    \/ HyperboardReject
    \/ ResumeHyperboardRejected
    \/ ResumeHyperboardFulfilled
    \/ \E i \in 1..Len(requests) :
         \E resp \in HypercertResponses(requests[i].id) : RequestFulfil(i, resp)
    \/ \E i \in 1..Len(requests) : RequestReject(i)
    \/ ResumeAllFulfilled
    \/ ResumeAllRejected

Spec == Init /\ [][Next]_vars

\* ---- the form in use ----
InitForm == FetchInit /\ FormInit

NextForm ==
    \/ \E v \in TitleChoices : Edit("title", v)
    \/ \E v \in DescriptionChoices : Edit("description", v)
    \/ \E v \in UrlChoices : Edit("link", v)
    \/ \E v \in UrlChoices : Edit("logo", v)
    \/ \E v \in UrlChoices : Edit("banner", v)
    \/ \E v \in TagChoices : EditTags(v)
    \/ \E v \in CalendarRanges : Edit("projectDates", v)
    \/ \E v \in DateChoices : Edit("workStartDate", v)
    \/ \E v \in DateChoices : Edit("workEndDate", v)
    \/ \E v \in ContributorChoices : Edit("contributors", Some(v))
    \/ \E v \in BOOLEAN : Edit("acceptTerms", v)
    \/ \E v \in BOOLEAN : Edit("confirmContributorsPermission", v)
    \/ RunBadgesEffect
    \/ Submit

SpecForm == InitForm /\ [][NextForm]_vars

\* ---- the tags field typed and erased one character at a time ----
NextTags ==
    \/ \E c \in TagAlphabet :
         /\ Len(Val(values).tags) < MaxTagsLen
         /\ EditTags(Append(Val(values).tags, c))
    \/ /\ Val(values).tags # <<>>
       /\ EditTags(SubSeq(Val(values).tags, 1, Len(Val(values).tags) - 1))
    \/ RunBadgesEffect
    \/ Submit

SpecTags == InitForm /\ [][NextTags]_vars

\* ---- the schema applied to drafts ----
InitSchema ==
    /\ FetchInit
    /\ values \in {Some(d) : d \in Drafts}
    /\ badges = DefaultBadges
    /\ effectPending = FALSE
    /\ lastEvent = None

NextSchema == Validate

SpecSchema == InitSchema /\ [][NextSchema]_vars

\* ---- the schema applied to every contributors text ----
InitContributors ==
    /\ FetchInit
    /\ values \in {Some([ValidDraft EXCEPT !.contributors = Some(t)]) : t \in ContributorTexts}
    /\ badges = DefaultBadges
    /\ effectPending = FALSE
    /\ lastEvent = None

SpecContributors == InitContributors /\ [][NextSchema]_vars

\* ------------------------------------------------------------------------
\* Properties of fetchHypercerts
\* ------------------------------------------------------------------------
Done == pc = "done"

Envelope == Val(outcome)

IsSuccess == IsSome(outcome) /\ Envelope.kind = "return" /\ IsSome(Envelope.data)

IsFailure == IsSome(outcome) /\ Envelope.kind = "return" /\ IsSome(Envelope.error)

Rejected == {i \in 1..Len(requests) : requests[i].status = "rejected"}

AllResponded == \A i \in 1..Len(requests) : requests[i].status = "fulfilled"

HasRecord(i) ==
    /\ requests[i].status = "fulfilled"
    /\ IsSome(Val(requests[i].response).hypercerts)
    /\ IsSome(Val(Val(requests[i].response).hypercerts).data)
    /\ Len(Val(Val(Val(requests[i].response).hypercerts).data)) > 0

RECURSIVE ExpectedFrom(_)
\* the records the responses resolve to, walking the identifiers in order
ExpectedFrom(i) ==
    IF i > Len(requests) THEN <<>>
    ELSE (IF HasRecord(i)
          THEN <<Some(Val(Val(Val(requests[i].response).hypercerts).data)[1])>>
          ELSE <<>>) \o ExpectedFrom(i + 1)

\* C1: when the hyperboard response carries a non-empty entries list and every
\* per-identifier request has been answered, the call returns a success
\* envelope whose records are those of the identifiers, in identifier order,
\* the identifiers without a record left out -- whatever order the answers
\* came in.
C1_OrderPreserved ==
    (Done /\ IsSome(hypercertIds) /\ Len(Val(hypercertIds)) > 0 /\ AllResponded)
        => /\ IsSuccess
           /\ ~IsSome(Envelope.error)
           /\ \A i \in 1..Len(requests) : requests[i].id = Val(hypercertIds)[i]
           /\ Envelope.data = Some(ExpectedFrom(1))

\* C1 witness: three identifiers, a later answer overtook an earlier one, one
\* identifier had no record, and two records came back.
C1_Witness ==
    /\ Done /\ IsSuccess /\ outOfOrder
    /\ Len(requests) = 3 /\ AllResponded
    /\ HasRecord(1) /\ ~HasRecord(2) /\ HasRecord(3)
    /\ requests[1].id # requests[3].id
    /\ Len(Val(Envelope.data)) = 2

\* C2: an empty or missing entries list (or a missing hyperboard or section)
\* ends in the failure envelope with the fixed "not found" message.
C2_NotFoundOnEmptyOrMissing ==
    (Done /\ hbReq.status = "fulfilled"
          /\ LET x == ExtractIds(Val(hbReq.response))
             IN  x.kind # "ids" \/ x.ids = <<>>)
        => outcome = Some([kind |-> "return", data |-> None,
                           error |-> Some(NotFoundError)])

\* C3: once a per-identifier request has rejected, the completed call is a
\* failure envelope carrying the rejection of one of the rejected requests,
\* and no record list.
C3_RejectionFailsAll ==
    (Done /\ Rejected # {})
        => /\ IsFailure
           /\ ~IsSome(Envelope.data)
           /\ \E i \in Rejected : Envelope.error = Some(RequestRejection(i))

\* C3 witness: a request rejected after another had already delivered a record
\* and while a third was still in flight.
C3_Witness ==
    /\ Done /\ IsFailure /\ outOfOrder
    /\ Len(requests) = 3
    /\ requests[2].status = "rejected"
    /\ HasRecord(3)
    /\ requests[1].status = "inflight"

\* C4: a completed call has returned (not thrown) an envelope with exactly
\* one of data and error populated, and data holds no null; a call that has
\* not completed has produced nothing.
C4_ExactlyOneOfDataError ==
    /\ Done => /\ IsSome(outcome)
               /\ Envelope.kind = "return"
               /\ IsSome(Envelope.data) # IsSome(Envelope.error)
               /\ IsSome(Envelope.data) =>
                    \A k \in 1..Len(Val(Envelope.data)) : IsSome(Val(Envelope.data)[k])
    /\ ~Done => outcome = None

\* C4 witness: a completed call on the rejection path
C4_Witness ==
    /\ Done /\ IsFailure
    /\ \E i \in Rejected : Envelope.error = Some(RequestRejection(i))
    /\ \E i \in 1..Len(requests) : requests[i].status = "fulfilled" /\ ~HasRecord(i)

\* C8: no per-identifier request exists before the hyperboard response has been
\* received and processed; a failed or not-found hyperboard stage issues none;
\* otherwise, by the time the function waits on Promise.all, exactly one request
\* per extracted identifier has been issued, in identifier order.
C8_FanOutAfterHyperboard ==
    /\ requests # <<>> => hbReq.status = "fulfilled"
    /\ pc \in {"start", "awaitHyperboard"} => requests = <<>>
    /\ (Done /\ ~IsSome(hypercertIds)) => requests = <<>>
    /\ (Done /\ IsFailure /\ Envelope.error \in {Some(NotFoundError), Some(HyperboardRejection)})
          => requests = <<>>
    /\ pc = "awaitAll" => IsSome(hypercertIds)
    /\ IsSome(hypercertIds) =>
          /\ Len(requests) = Len(Val(hypercertIds))
          /\ \A i \in 1..Len(requests) : requests[i].id = Val(hypercertIds)[i]

\* C8 witness: the function is suspended on Promise.all with three requests in
\* flight and none answered yet.
C8_Witness ==
    /\ pc = "awaitAll"
    /\ Len(requests) = 3
    /\ \A i \in 1..3 : requests[i].status = "inflight"

\* ------------------------------------------------------------------------
\* Properties of the schema and the form
\* ------------------------------------------------------------------------
Parsed == IsSome(lastEvent) /\ Val(lastEvent).type = "parse"

Submitted == IsSome(lastEvent) /\ Val(lastEvent).type = "submit"

Result == Val(lastEvent).result

FromAfterTo ==
    /\ IsSome(Val(values).projectDates)
    /\ IsSome(Val(Val(values).projectDates).from)
    /\ IsSome(Val(Val(values).projectDates).to)
    /\ Val(Val(Val(values).projectDates).from) > Val(Val(Val(values).projectDates).to)

\* C5: a date range with from > to fails validation, whatever the other fields
\* hold, and the issue is attached to the path projectDates.
C5_ErrorAtProjectDates ==
    (Parsed /\ FromAfterTo)
        => /\ ~Result.success
           /\ \E i \in Result.issues : i.path = <<"projectDates">>

AllValid(xs) == \A i \in 1..Len(xs) : IsValidEthereumAddress(xs[i])

\* C6: a contributors text with a malformed entry (under either way of
\* splitting it) is rejected, and an accepted text is transformed into its
\* entries in input order, each trimmed and well-formed: the list split on ","
\* is the list that was validated, split on ", ".
C6_ContributorsWellFormed ==
    Parsed =>
        LET text == Val(Val(values).contributors)
            validated == TrimAll(Split(text, CommaSpace))
            entries == TrimAll(Split(text, Comma))
        IN  /\ (~AllValid(validated) \/ ~AllValid(entries)) => ~Result.success
            /\ Result.success =>
                 LET out == Val(Result.data).contributors
                 IN  /\ out = validated
                     /\ AllValid(out)
                     /\ \A i \in 1..Len(out) : Trim(out[i]) = out[i]

\* C6 witness: a text of two addresses was accepted and transformed
C6_Witness ==
    /\ Parsed /\ Result.success
    /\ Len(Val(Result.data).contributors) = 2

\* C7: a submission goes through the UI only with both acknowledgements true,
\* and the submit handler is never invoked while one of them is false.
C7_AcknowledgementsEnforced ==
    Submitted =>
        /\ Val(values).acceptTerms /\ Val(values).confirmContributorsPermission
        /\ Val(lastEvent).invoked =>
             (Val(values).acceptTerms /\ Val(values).confirmContributorsPermission)

RECURSIVE KeepNonEmpty(_)
KeepNonEmpty(xs) ==
    IF xs = <<>> THEN <<>>
    ELSE (IF Head(xs) = <<>> THEN <<>> ELSE <<Head(xs)>>) \o KeepNonEmpty(Tail(xs))

ExpectedBadges == DefaultBadges \o KeepNonEmpty(TrimAll(Split(Val(values).tags, Comma)))

\* C9: once the effect has run, the badge list is the two default tags followed
\* by the trimmed non-empty comma-separated segments of the current tags value,
\* in order; this is the work scope a submit hands to the transform.
C9_BadgesFollowTags ==
    ~effectPending =>
        /\ badges = ExpectedBadges
        /\ SubSeq(WorkScope, 1, 2) = DefaultBadges
        /\ WorkScope = ExpectedBadges
        /\ (Submitted /\ Val(lastEvent).invoked) =>
              Val(Val(lastEvent).metadata).workScope = ExpectedBadges

\* C9 witness: the effect has run on a tags value with a padded segment and
\* an empty one
C9_Witness ==
    /\ ~effectPending
    /\ Len(Split(Val(values).tags, Comma)) = 3
    /\ Len(badges) = 3
    /\ \E i \in 1..Len(Val(values).tags) : Val(values).tags[i] = " "

RenderedFieldsValid ==
    \A i \in SchemaIssues(Val(values)) : i.path = <<"cardImage">>

\* C10: a submit after edits that make every rendered field valid passes the
\* schema and invokes the transform; a submit whose validation fails does not.
C10_SubmitReachesTransform ==
    Submitted =>
        /\ RenderedFieldsValid => (Result.success /\ Val(lastEvent).invoked)
        /\ ~Result.success => ~Val(lastEvent).invoked

====
